---------------------------- MODULE Spec2Model ----------------------------
(***************************************************************************)
(* Federated-learning round orchestration of                              *)
(* ai-ml/federated-learning/federated_coordinator.py:                     *)
(* FederatedServer (add_client, select_clients, aggregate_updates,        *)
(* federated_round, train) and the part of FederatedClient the server     *)
(* drives (set_model, local_train, evaluate).                             *)
(*                                                                         *)
(* Tensors are maps from parameter keys to numbers.  Numbers are exact    *)
(* rationals [n, d] in lowest terms with d > 0: the float rounding of the *)
(* tensor arithmetic is not modelled.                                      *)
(***************************************************************************)
EXTENDS Integers, Sequences, FiniteSets, TLC

VARIABLES
    clients,              \* FederatedServer.clients (list, in registration order)
    global_state,         \* FederatedServer.global_model.state_dict()
    model,                \* FederatedClient.model of every client object
    round_results,        \* FederatedServer.round_results
    config,               \* FederatedConfig: num_rounds, min_clients
    pc,                   \* position of the running call
    selected,             \* federated_round: selected_clients
    idx,                  \* federated_round: position of the client loop
    client_updates,       \* federated_round: client_updates
    client_evaluations,   \* federated_round: client_evaluations
    round_result,         \* the dict the last federated_round returned
    round_start,          \* global_state when the running federated_round began
    train_log,            \* the local_train calls of this federated_round, in order
    training_history,     \* train: training_history
    best_accuracy,        \* train: best_accuracy
    no_improvement_count, \* train: no_improvement_count
    round_num,            \* train: number of federated_round calls made so far
    call                  \* a direct call of one server method: arguments and result

vars == <<clients, global_state, model, round_results, config, pc, selected, idx,
          client_updates, client_evaluations, round_result, round_start, train_log,
          training_history, best_accuracy, no_improvement_count, round_num, call>>

serverVars == <<clients, global_state, model, round_results, config>>
roundVars == <<selected, idx, client_updates, client_evaluations, round_result,
               round_start, train_log>>
trainVars == <<training_history, best_accuracy, no_improvement_count, round_num>>

-----------------------------------------------------------------------------
(* Bounds of the model *)

MaxClients == 2        \* registered clients in the single-round specification
MaxTrainClients == 1   \* registered clients in the train specification
MaxRounds == 5         \* the largest config.num_rounds of the train specification
MaxUpdates == 2        \* length of the update list of a direct aggregate_updates call

-----------------------------------------------------------------------------
(* Exact rational arithmetic *)

Abs(x) == IF x < 0 THEN -x ELSE x

RECURSIVE GCD(_, _)
GCD(a, b) == IF b = 0 THEN a ELSE GCD(b, a % b)

\* n/d in lowest terms, d > 0
Frac(n, d) ==
    LET g == GCD(Abs(n), d)
    IN  [n |-> n \div g, d |-> d \div g]

Num(i) == [n |-> i, d |-> 1]
Zero == Num(0)
RAdd(x, y) == Frac(x.n * y.d + y.n * x.d, x.d * y.d)
RMul(x, y) == Frac(x.n * y.n, x.d * y.d)
RLess(x, y) == x.n * y.d < y.n * x.d
RLeq(x, y) == x.n * y.d <= y.n * x.d

RECURSIVE RSum(_)
RSum(s) == IF s = <<>> THEN Zero ELSE RAdd(Head(s), RSum(Tail(s)))

\* np.mean of a non-empty list
Mean(s) == RMul(RSum(s), Frac(1, Len(s)))

\* Python's int(): truncation toward zero
Trunc(x) == IF x.n >= 0 THEN x.n \div x.d ELSE -((-x.n) \div x.d)
Floor(x) == x.n \div x.d
Max(a, b) == IF a >= b THEN a ELSE b

-----------------------------------------------------------------------------
(* The objects *)

None == "None"

\* the FederatedClient objects; client_id of object c is c
ClientIds == {1, 2}

\* len(client.dataset): fixed when the client is constructed
NumSamples == <<100, 300>>

\* parameter keys of the model's state_dict
Keys == {"w", "b"}

InitialState == [k \in Keys |-> Zero]

\* client.model: None until set_model, then a model object with parameters;
\* shared tells whether its parameter tensors are those of the global model
NoModel == [bound |-> FALSE, params |-> InitialState, shared |-> FALSE]
BoundModel(params) == [bound |-> TRUE, params |-> params, shared |-> FALSE]
SharedModel(params) == [bound |-> TRUE, params |-> params, shared |-> TRUE]

Range(s) == {s[i] : i \in 1..Len(s)}


-----------------------------------------------------------------------------
(* FederatedServer.add_client *)

\* self.clients.append(client): no look-up of client.client_id
add_client_list(pool, c) == Append(pool, c)

-----------------------------------------------------------------------------
(* FederatedServer.select_clients *)

\* mutant: without max(1, ...)
num_selected_no_max(pool, fraction) == Trunc(RMul(Num(Len(pool)), fraction))

\* num_selected = max(1, int(len(self.clients) * fraction))
num_selected(pool, fraction) ==
    Max(1, Trunc(RMul(Num(Len(pool)), fraction)))

\* np.random.choice(a, size, replace=False) raises ValueError when a is empty
\* and size is not 0, and when size exceeds len(a)
select_raises(pool, fraction) ==
    \/ Len(pool) = 0
    \/ num_selected(pool, fraction) > Len(pool)

\* the draws np.random.choice can make: size distinct positions of the list,
\* in any order
Draws(n, size) ==
    {p \in [1..size -> 1..n] : \A i, j \in 1..size : i # j => p[i] # p[j]}

\* every list select_clients can return
select_clients(pool, fraction) ==
    IF select_raises(pool, fraction)
    THEN {}
    ELSE {[i \in 1..num_selected(pool, fraction) |-> pool[p[i]]] :
             p \in Draws(Len(pool), num_selected(pool, fraction))}

-----------------------------------------------------------------------------
(* FederatedServer.aggregate_updates *)

\* mutant: the number of updates instead of the number of samples
total_samples_counts_updates(us) == Len(us)

\* total_samples = sum(update['num_samples'] for update in client_updates)
RECURSIVE total_samples(_)
total_samples(us) ==
    IF us = <<>> THEN 0 ELSE Head(us).num_samples + total_samples(Tail(us))

\* mutant: floor division
weight_floor_division(update, total) == Num(update.num_samples \div total)

\* weight = update['num_samples'] / total_samples
weight(update, total) == Frac(update.num_samples, total)

\* the loop "for update in client_updates": aggregated_updates[key] +=
\* weight * update['updates'][key], from update i on
RECURSIVE weighted_averaging(_, _, _, _)
weighted_averaging(us, i, total, aggregated) ==
    IF i > Len(us)
    THEN aggregated
    ELSE weighted_averaging(us, i + 1, total,
            [k \in DOMAIN aggregated |->
                RAdd(aggregated[k], RMul(weight(us[i], total), us[i].updates[k]))])

\* mutant: the averaging loop leaves out the first update of the list
aggregated_updates_skips_first(us) ==
    weighted_averaging(us, 2, total_samples(us),
                       [k \in DOMAIN us[1].updates |-> Zero])

\* aggregated_updates, for the keys of the first update, starting from zeros
aggregated_updates(us) ==
    weighted_averaging(us, 1, total_samples(us),
                       [k \in DOMAIN us[1].updates |-> Zero])

\* mutant: no early return, so client_updates[0] raises IndexError on an empty list
aggregate_raises_unguarded(gs, us) ==
    \/ us = <<>>
    \/ total_samples(us) = 0

\* ZeroDivisionError of the weight and KeyError of update['updates'][key]: both
\* are raised in the averaging loop, before the global model is touched
\* (the keys of the first update are keys of the global model throughout)
aggregate_raises(gs, us) ==
    /\ us # <<>>
    /\ \/ total_samples(us) = 0
       \/ \E i \in 1..Len(us) : ~(DOMAIN us[1].updates \subseteq DOMAIN us[i].updates)

\* the state_dict of the global model after aggregate_updates(client_updates)
aggregate_updates(gs, us) ==
    IF us = <<>> \/ aggregate_raises(gs, us)
    THEN gs
    ELSE LET aggregated == CHOOSE a \in {aggregated_updates(us)} : TRUE
         IN  [k \in DOMAIN gs |->
                IF k \in DOMAIN aggregated THEN RAdd(gs[k], aggregated[k]) ELSE gs[k]]

-----------------------------------------------------------------------------
(* PrivacyEngine.add_noise_to_gradients, on the gradients of the parameters *)

RDiv(x, y) == IF y.n > 0 THEN Frac(x.n * y.d, x.d * y.n) ELSE Frac(-(x.n * y.d), x.d * (-y.n))

\* the square root of a rational whose numerator and denominator are squares
RSqrt(x) ==
    Frac(CHOOSE r \in 0..x.n : r * r = x.n, CHOOSE r \in 1..x.d : r * r = x.d)

\* the 1e-6 of the clipping coefficient
epsilon == Frac(1, 1000000)

\* the loop "total_norm += param_norm.item() ** 2" over the parameters S
RECURSIVE squared_norm(_, _)
squared_norm(grad, S) ==
    IF S = {} THEN Zero
    ELSE LET k == CHOOSE key \in S : TRUE
         IN  RAdd(RMul(grad[k], grad[k]), squared_norm(grad, S \ {k}))

\* total_norm = total_norm ** (1. / 2)
total_norm(grad) == RSqrt(squared_norm(grad, DOMAIN grad))

\* clip_coef = self.max_grad_norm / (total_norm + 1e-6)
clip_coef(max_grad_norm, norm) == RDiv(max_grad_norm, RAdd(norm, epsilon))

\* mutant: the gradients are never scaled
clips_never(coef) == FALSE

\* if clip_coef < 1
clips(coef) == RLess(coef, Num(1))

\* the gradients after the clipping loop: every one multiplied by clip_coef
clipped_gradients(grad, max_grad_norm) ==
    LET coef == clip_coef(max_grad_norm, total_norm(grad))
    IN  IF clips(coef) THEN [k \in DOMAIN grad |-> RMul(grad[k], coef)] ELSE grad

\* draws of a standard normal variable
NormalDraws == {Num(-1), Zero, Num(1)}

\* torch.normal(mean=0.0, std=noise_multiplier * max_grad_norm): the noises one
\* call can add to the gradients
noises(grad, max_grad_norm, noise_multiplier) ==
    [DOMAIN grad -> {RMul(z, RMul(noise_multiplier, max_grad_norm)) : z \in NormalDraws}]

\* the gradients add_noise_to_gradients can leave: clipped, then noise added
add_noise_to_gradients(grad, max_grad_norm, noise_multiplier) ==
    {[clipped |-> clipped_gradients(grad, max_grad_norm),
      grad |-> [k \in DOMAIN grad |->
                  RAdd(clipped_gradients(grad, max_grad_norm)[k], noise[k])]] :
        noise \in noises(grad, max_grad_norm, noise_multiplier)}

-----------------------------------------------------------------------------
(* Values the environment supplies *)

\* gradients of the two parameters, of norm 0, 1/2, 1, 1 and 5
Gradients ==
    {[k \in Keys |-> Zero],
     [k \in Keys |-> IF k = "w" THEN Frac(3, 10) ELSE Frac(-4, 10)],
     [k \in Keys |-> IF k = "w" THEN Frac(3, 5) ELSE Frac(4, 5)],
     [k \in Keys |-> IF k = "w" THEN Zero ELSE Num(-1)],
     [k \in Keys |-> IF k = "w" THEN Num(3) ELSE Num(4)]}

\* config.max_grad_norm and config.noise_multiplier of a PrivacyEngine
MaxGradNorms == {Num(1), Frac(1, 2)}
NoiseMultipliers == {Zero, Frac(1, 10)}

\* what a client's local training can add to one parameter
DeltaValues == {Num(-1), Zero, Frac(1, 2), Num(1)}

\* the dict local_train returns
Update(c, delta, loss) ==
    [client_id |-> c, updates |-> delta, num_samples |-> NumSamples[c], loss |-> loss]

\* lists of at most n elements of S
SeqsUpTo(S, n) == UNION {[1..m -> S] : m \in 0..n}

\* the 'updates' dicts of a direct aggregate_updates call: any non-empty set of
\* keys of the global model
Deltas == UNION {[K -> DeltaValues] : K \in (SUBSET Keys) \ {{}}}

\* an update dict with 'num_samples': 0, as local_train builds it when the
\* dataset has no sample: no batch, so no parameter moves and the loss is 0.0
ZeroSampleUpdate(c) ==
    [client_id |-> c, updates |-> [k \in Keys |-> Zero], num_samples |-> 0, loss |-> Zero]

\* argument lists of a direct aggregate_updates call; the updates of one list
\* need not have the same keys
UpdateLists ==
    SeqsUpTo({Update(c, d, Zero) : c \in ClientIds, d \in Deltas}
                \cup {ZeroSampleUpdate(c) : c \in ClientIds},
             MaxUpdates)

\* fractions of a direct select_clients call
Fractions ==
    {Frac(-1, 2), Zero, Frac(1, 4), Frac(1, 2), Frac(2, 3), Num(1), Frac(3, 2)}

\* states of the global model a call can start from
GlobalStates == {InitialState, [k \in Keys |-> IF k = "w" THEN Frac(1, 2) ELSE Num(-1)]}

NoCall == [op |-> None, fraction |-> Zero, updates |-> <<>>, before |-> InitialState,
           status |-> None, returned |-> <<>>,
           max_grad_norm |-> Num(1), noise_multiplier |-> Zero,
           clipped |-> InitialState, grad |-> InitialState, client |-> 0]

NoResult == [status |-> None]

NoHistory == [rounds |-> <<>>, final_accuracy |-> Zero, convergence_round |-> -1]

\* FederatedServer.__init__ and FederatedClient.__init__, no call running
Fresh ==
    /\ round_results = <<>>
    /\ model = [c \in ClientIds |-> NoModel]
    /\ selected = <<>>
    /\ idx = 0
    /\ client_updates = <<>>
    /\ client_evaluations = <<>>
    /\ round_result = NoResult
    /\ train_log = <<>>
    /\ training_history = NoHistory
    /\ best_accuracy = Zero
    /\ no_improvement_count = 0
    /\ round_num = 0

-----------------------------------------------------------------------------
(* Direct calls of select_clients and aggregate_updates on drawn arguments *)

InitUnit ==
    /\ Fresh
    /\ pc = "unit"
    /\ config = [num_rounds |-> 0, min_clients |-> 1]
    /\ \/ /\ clients \in SeqsUpTo(ClientIds, MaxClients)
          /\ global_state = InitialState
          /\ round_start = global_state
          /\ \E f \in Fractions :
                call = [NoCall EXCEPT !.op = "select_clients", !.fraction = f,
                                      !.status = "ready"]
       \/ /\ clients = <<>>
          /\ global_state \in GlobalStates
          /\ round_start = global_state
          /\ \E us \in UpdateLists :
                call = [NoCall EXCEPT !.op = "aggregate_updates", !.updates = us,
                                      !.before = global_state, !.status = "ready"]
       \/ /\ clients = <<>>
          /\ global_state \in GlobalStates
          /\ round_start = global_state
          /\ \E c \in ClientIds, op \in {"local_train", "evaluate"} :
                call = [NoCall EXCEPT !.op = op, !.client = c, !.status = "ready"]
       \/ /\ clients = <<>>
          /\ global_state = InitialState
          /\ round_start = global_state
          /\ \E g \in Gradients, m \in MaxGradNorms, nm \in NoiseMultipliers :
                call = [NoCall EXCEPT !.op = "add_noise_to_gradients", !.before = g,
                                      !.grad = g, !.max_grad_norm = m,
                                      !.noise_multiplier = nm, !.status = "ready"]

call_select_clients ==
    /\ pc = "unit"
    /\ call.op = "select_clients"
    /\ call.status = "ready"
    /\ IF select_raises(clients, call.fraction)
       THEN call' = [call EXCEPT !.status = "raised"]
       ELSE \E s \in select_clients(clients, call.fraction) :
               call' = [call EXCEPT !.status = "returned", !.returned = s]
    /\ UNCHANGED <<serverVars, pc, roundVars, trainVars>>

call_aggregate_updates ==
    /\ pc = "unit"
    /\ call.op = "aggregate_updates"
    /\ call.status = "ready"
    /\ global_state' = aggregate_updates(global_state, call.updates)
    /\ call' = [call EXCEPT !.status =
                    IF aggregate_raises(global_state, call.updates)
                    THEN "raised" ELSE "returned"]
    /\ UNCHANGED <<clients, model, round_results, config, pc, roundVars, trainVars>>

\* privacy_engine.add_noise_to_gradients(model): call.before holds the gradients
\* at the call, call.clipped those after the clipping loop, call.grad those left
call_add_noise_to_gradients ==
    /\ pc = "unit"
    /\ call.op = "add_noise_to_gradients"
    /\ call.status = "ready"
    /\ \E r \in add_noise_to_gradients(call.before, call.max_grad_norm,
                                       call.noise_multiplier) :
          call' = [call EXCEPT !.status = "returned", !.clipped = r.clipped,
                               !.grad = r.grad]
    /\ UNCHANGED <<serverVars, pc, roundVars, trainVars>>

-----------------------------------------------------------------------------
(* One client of a round: FederatedServer.federated_round, the loop body,    *)
(* with FederatedClient.set_model, local_train and evaluate                  *)

RSub(x, y) == RAdd(x, RMul(Num(-1), y))

\* what the environment decides of one client's turn: whether local_train
\* raises, what training adds to the parameters, the mean batch loss, whether
\* evaluate raises, the accuracy and loss it measures
Outcome(train_raises, delta, loss, eval_raises, accuracy, eval_loss) ==
    [train_raises |-> train_raises, delta |-> delta, loss |-> loss,
     eval_raises |-> eval_raises, accuracy |-> accuracy, eval_loss |-> eval_loss]

\* the locals of federated_round together with the objects it changes
Frame(gs, mdl, ups, evs, log) ==
    [global_state |-> gs, model |-> mdl, client_updates |-> ups,
     client_evaluations |-> evs, train_log |-> log]

\* FederatedClient.local_train on a client whose model is m0: the dict returned
\* (updates[key] = state after training - initial_state[key])
local_train(c, m0, o) ==
    LET initial_state == m0.params
        trained == [k \in DOMAIN initial_state |-> RAdd(initial_state[k], o.delta[k])]
    IN  [model |-> [m0 EXCEPT !.params = trained],
         result |-> Update(c, [k \in DOMAIN initial_state |->
                                  RSub(trained[k], initial_state[k])], o.loss)]

\* mutant: local_train does not look at self.model
local_train_raises_unchecked(m, o) == o.train_raises

\* if self.model is None: raise ValueError("Model not set for client"), or an
\* error of the training itself
local_train_raises(m, o) == ~m.bound \/ o.train_raises

\* the same check of evaluate, or an error of the inference itself
evaluate_raises(m, o) == ~m.bound \/ o.eval_raises

\* FederatedClient.evaluate, with eval_result['client_id'] set by the server
evaluate(c, o) ==
    [accuracy |-> o.accuracy, loss |-> o.eval_loss, num_samples |-> NumSamples[c],
     client_id |-> c]

\* FederatedConfig.local_epochs and FederatedConfig.batch_size
local_epochs == 5
batch_size == 32

\* len(self.dataloader): the mini-batches of one pass over the client's dataset
num_batches(c) == (NumSamples[c] + batch_size - 1) \div batch_size

\* the calls of privacy_engine.add_noise_to_gradients a local_train that
\* returns has made: one for every mini-batch of every epoch
privacy_calls(c) == local_epochs * num_batches(c)

\* an entry of train_log: the client, whether its local_train raised, what its
\* training added to the parameters and, for a call that returned, its calls of
\* the privacy engine
TrainCall(c, o, m) ==
    [client |-> c, raised |-> local_train_raises(m, o), delta |-> o.delta,
     privacy_calls |-> IF local_train_raises(m, o) THEN 0 ELSE privacy_calls(c),
     initial_state |-> m.params]

\* mutant: a client whose local_train raised is counted with an all-zero update
try_block_counts_failure(fr, c, o) ==
    [fr EXCEPT !.train_log = Append(@, TrainCall(c, o, fr.model[c])),
               !.client_updates =
                   IF o.train_raises
                   THEN Append(@, Update(c, [k \in Keys |-> Zero], Zero))
                   ELSE Append(@, Update(c, o.delta, o.loss)),
               !.model[c] = IF o.train_raises THEN @
                            ELSE BoundModel([k \in Keys |-> RAdd(@.params[k], o.delta[k])])]

\* the try block of the loop: the update is appended before evaluate is called,
\* so an error of evaluate leaves the update in client_updates
try_block(fr, c, o) ==
    IF local_train_raises(fr.model[c], o)
    THEN [fr EXCEPT !.train_log = Append(@, TrainCall(c, o, fr.model[c]))]
    ELSE LET t == local_train(c, fr.model[c], o)
             fr1 == [fr EXCEPT !.model[c] = t.model,
                               !.global_state = IF t.model.shared THEN t.model.params ELSE @,
                               !.train_log = Append(@, TrainCall(c, o, fr.model[c])),
                               !.client_updates = Append(@, t.result)]
         IN  IF evaluate_raises(t.model, o)
             THEN fr1
             ELSE [fr1 EXCEPT !.client_evaluations = Append(@, evaluate(c, o))]

\* mutant: the global model itself is handed to the client
client_model_is_global(gs) == SharedModel(gs)

\* mutant: the new model is not loaded with the global state_dict
client_model_not_loaded(gs) == BoundModel(InitialState)

\* client_model = LaundryPredictionModel(...) followed by
\* client_model.load_state_dict(self.global_model.state_dict()): a new model
\* object whose own parameters get the values of the global ones
client_model(gs) == BoundModel(gs)

\* one pass of "for client in selected_clients": a fresh model loaded with the
\* global state_dict is bound to the client, then the try block runs
client_step(fr, c, o) ==
    try_block([fr EXCEPT !.model[c] = client_model(fr.global_state)], c, o)

\* mutant: the loop over the selected clients ends after the first client
loop_finished_after_first(i, sel) == i > 1

\* "for client in selected_clients" is exhausted after i - 1 passes
loop_finished(i, sel) == i > Len(sel)

RECURSIVE run_clients(_, _, _, _)
run_clients(fr, sel, outs, i) ==
    IF loop_finished(i, sel)
    THEN fr
    ELSE run_clients(client_step(fr, sel[i], outs[i]), sel, outs, i + 1)

-----------------------------------------------------------------------------
(* FederatedServer.federated_round: selection check, aggregation, record *)

\* a dict without the key 'round'
NoRound == 0

\* mutant: no selection is too small
insufficient_never(sel, cfg) == FALSE

\* mutant: the check compares with min_clients - 1
insufficient_off_by_one(sel, cfg) == Len(sel) < cfg.min_clients - 1

\* len(selected_clients) < self.config.min_clients
insufficient(sel, cfg) == Len(sel) < cfg.min_clients

insufficient_result(sel) ==
    [status |-> "insufficient_clients", client_count |-> Len(sel), round |-> NoRound]

\* if client_updates: self.aggregate_updates(client_updates)
aggregate_step(fr) ==
    [fr EXCEPT !.global_state =
        IF fr.client_updates # <<>>
        THEN aggregate_updates(fr.global_state, fr.client_updates)
        ELSE fr.global_state]

Losses(ups) == [i \in 1..Len(ups) |-> ups[i].loss]
Accuracies(evs) == [i \in 1..Len(evs) |-> evs[i].accuracy]

\* the round statistics and the round_result dict
completed_result(fr) ==
    [status |-> "completed",
     participating_clients |-> Len(fr.client_updates),
     avg_loss |-> IF fr.client_updates # <<>>
                  THEN Mean(Losses(fr.client_updates)) ELSE Zero,
     avg_accuracy |-> IF fr.client_evaluations # <<>>
                      THEN Mean(Accuracies(fr.client_evaluations)) ELSE Zero,
     client_evaluations |-> fr.client_evaluations,
     round |-> NoRound]

-----------------------------------------------------------------------------
(* One federated_round, client by client, on a server built by add_client *)

\* a turn whose local_train raises
Failure == Outcome(TRUE, [k \in Keys |-> Zero], Zero, FALSE, Zero, Zero)

\* what local_train can return: the parameter change and the mean batch loss
TrainResults ==
    {[delta |-> [k \in Keys |-> IF k = "w" THEN Num(-1) ELSE Frac(1, 2)],
      loss |-> Frac(1, 2)],
     [delta |-> [k \in Keys |-> IF k = "w" THEN Frac(1, 2) ELSE Zero],
      loss |-> Num(2)]}

\* what evaluate can do: raise, or measure an accuracy
EvalResults ==
    {[raises |-> TRUE, accuracy |-> Zero],
     [raises |-> FALSE, accuracy |-> Frac(1, 2)],
     [raises |-> FALSE, accuracy |-> Frac(5005, 10000)]}

RoundOutcomes ==
    {Failure} \cup
    {Outcome(FALSE, t.delta, t.loss, e.raises, e.accuracy, Frac(1, 4)) :
        t \in TrainResults, e \in EvalResults}

-----------------------------------------------------------------------------
(* Direct calls of set_model, local_train and evaluate on one client, and the *)
(* specification of the direct calls                                          *)

\* client.set_model(model) before a direct call of local_train or evaluate,
\* with a model of its own loaded with the global parameters
call_set_model ==
    /\ pc = "unit"
    /\ call.op \in {"local_train", "evaluate"}
    /\ call.status = "ready"
    /\ ~model[call.client].bound
    /\ model' = [model EXCEPT ![call.client] = client_model(global_state)]
    /\ UNCHANGED <<clients, global_state, round_results, config, pc, roundVars,
                   trainVars, call>>

\* client.local_train(): call.before holds the parameters of the client's
\* model at the call, call.returned the dict returned
call_local_train ==
    /\ pc = "unit"
    /\ call.op = "local_train"
    /\ call.status = "ready"
    /\ \E o \in RoundOutcomes :
          IF local_train_raises(model[call.client], o)
          THEN /\ call' = [call EXCEPT !.status = "raised",
                                       !.before = model[call.client].params]
               /\ UNCHANGED <<model, global_state>>
          ELSE LET t == local_train(call.client, model[call.client], o)
               IN  /\ call' = [call EXCEPT !.status = "returned",
                                           !.before = model[call.client].params,
                                           !.updates = <<t.result>>]
                   /\ model' = [model EXCEPT ![call.client] = t.model]
                   /\ global_state' = IF t.model.shared THEN t.model.params
                                      ELSE global_state
    /\ UNCHANGED <<clients, round_results, config, pc, roundVars, trainVars>>

\* client.evaluate(): call.returned holds the dict returned
call_evaluate ==
    /\ pc = "unit"
    /\ call.op = "evaluate"
    /\ call.status = "ready"
    /\ \E o \in RoundOutcomes :
          /\ ~o.train_raises
          /\ IF evaluate_raises(model[call.client], o)
             THEN call' = [call EXCEPT !.status = "raised",
                                       !.before = model[call.client].params]
             ELSE call' = [call EXCEPT !.status = "returned",
                                       !.before = model[call.client].params,
                                       !.returned = <<evaluate(call.client, o)>>]
    /\ UNCHANGED <<serverVars, pc, roundVars, trainVars>>

NextUnit ==
    \/ call_select_clients
    \/ call_aggregate_updates
    \/ call_add_noise_to_gradients
    \/ call_set_model
    \/ call_local_train
    \/ call_evaluate

SpecUnit == InitUnit /\ [][NextUnit]_vars

-----------------------------------------------------------------------------
(* One federated_round on a server built by add_client: its environment *)

\* config.min_clients of the single-round specification
MinClientsChoices == {1, 2, 3}

CurrentFrame == Frame(global_state, model, client_updates, client_evaluations, train_log)

InitRound ==
    /\ Fresh
    /\ pc = "idle"
    /\ clients = <<>>
    /\ global_state \in GlobalStates
    /\ round_start = global_state
    /\ config \in [num_rounds : {1}, min_clients : MinClientsChoices]
    /\ call = NoCall

\* FederatedServer.add_client(client)
add_client(c) ==
    /\ pc = "idle"
    /\ Len(clients) < MaxClients
    /\ clients' = add_client_list(clients, c)
    /\ UNCHANGED <<global_state, model, round_results, config, pc, roundVars,
                   trainVars, call>>

\* federated_round up to the return of the insufficient_clients dict
round_select ==
    /\ pc = "idle"
    /\ round_start' = global_state
    /\ IF select_raises(clients, Num(1))
       THEN /\ pc' = "raised"
            /\ UNCHANGED <<selected, idx, client_updates, client_evaluations,
                           round_result, train_log>>
       ELSE \E s \in select_clients(clients, Num(1)) :
               /\ selected' = s
               /\ client_updates' = <<>>
               /\ client_evaluations' = <<>>
               /\ train_log' = <<>>
               /\ IF insufficient(s, config)
                  THEN /\ round_result' = insufficient_result(s)
                       /\ pc' = "returned"
                       /\ idx' = 0
                  ELSE /\ round_result' = NoResult
                       /\ pc' = "clients"
                       /\ idx' = 1
    /\ UNCHANGED <<serverVars, trainVars, call>>

\* one pass of the client loop
round_client ==
    /\ pc = "clients"
    /\ ~loop_finished(idx, selected)
    /\ \E o \in RoundOutcomes :
          LET fr == client_step(CurrentFrame, selected[idx], o)
          IN  /\ model' = fr.model
              /\ client_updates' = fr.client_updates
              /\ client_evaluations' = fr.client_evaluations
              /\ train_log' = fr.train_log
              /\ global_state' = fr.global_state
    /\ idx' = idx + 1
    /\ UNCHANGED <<clients, round_results, config, pc, selected, round_result,
                   round_start, trainVars, call>>

\* the aggregation after the loop
round_aggregate ==
    /\ pc = "clients"
    /\ loop_finished(idx, selected)
    /\ IF aggregate_raises(global_state, client_updates)
       THEN pc' = "raised" /\ UNCHANGED global_state
       ELSE pc' = "aggregated" /\ global_state' = aggregate_step(CurrentFrame).global_state
    /\ UNCHANGED <<clients, model, round_results, config, roundVars, trainVars, call>>

\* the statistics, self.round_results.append(round_result), return round_result
round_record ==
    /\ pc = "aggregated"
    /\ round_result' = completed_result(CurrentFrame)
    /\ round_results' = Append(round_results, completed_result(CurrentFrame))
    /\ pc' = "returned"
    /\ UNCHANGED <<clients, global_state, model, config, selected, idx,
                   client_updates, client_evaluations, round_start, train_log,
                   trainVars, call>>

NextRound ==
    \/ \E c \in ClientIds : add_client(c)
    \/ round_select
    \/ round_client
    \/ round_aggregate
    \/ round_record

SpecRound == InitRound /\ [][NextRound]_vars

-----------------------------------------------------------------------------
(* FederatedServer.federated_round as one call *)

\* the server's objects after the call, the dict returned and the locals at
\* the return, for the selection sel and the clients' outcomes outs
federated_round(gs, mdl, rr, sel, outs, cfg) ==
    IF insufficient(sel, cfg)
    THEN [global_state |-> gs, model |-> mdl, round_results |-> rr,
          result |-> insufficient_result(sel),
          frame |-> Frame(gs, mdl, <<>>, <<>>, <<>>)]
    ELSE LET fr == CHOOSE f \in {aggregate_step(
                      run_clients(Frame(gs, mdl, <<>>, <<>>, <<>>), sel, outs, 1))} : TRUE
         IN  [global_state |-> fr.global_state, model |-> fr.model,
              round_results |-> Append(rr, completed_result(fr)),
              result |-> completed_result(fr),
              frame |-> fr]

-----------------------------------------------------------------------------
(* FederatedServer.train *)

convergence_threshold == Frac(1, 1000)
patience == 3

\* mutant: stops one round late, at no_improvement_count > patience
convergence_stops_late(best, count, result) ==
    IF result.status = "completed"
    THEN LET improved == RLess(RAdd(best, convergence_threshold), result.avg_accuracy)
             count1 == IF improved THEN 0 ELSE count + 1
         IN  [best_accuracy |-> IF improved THEN result.avg_accuracy ELSE best,
              no_improvement_count |-> count1,
              stop |-> count1 > patience]
    ELSE [best_accuracy |-> best, no_improvement_count |-> count, stop |-> FALSE]

\* mutant: a round that is not completed counts as a round without improvement
convergence_counts_insufficient(best, count, result) ==
    LET improved == /\ result.status = "completed"
                    /\ RLess(RAdd(best, convergence_threshold), result.avg_accuracy)
        count1 == IF improved THEN 0 ELSE count + 1
    IN  [best_accuracy |-> IF improved THEN result.avg_accuracy ELSE best,
         no_improvement_count |-> count1,
         stop |-> count1 >= patience]

\* mutant: best_accuracy follows the last completed round
convergence_tracks_last(best, count, result) ==
    IF result.status = "completed"
    THEN LET improved == RLess(RAdd(best, convergence_threshold), result.avg_accuracy)
             count1 == IF improved THEN 0 ELSE count + 1
         IN  [best_accuracy |-> result.avg_accuracy,
              no_improvement_count |-> count1,
              stop |-> count1 >= patience]
    ELSE [best_accuracy |-> best, no_improvement_count |-> count, stop |-> FALSE]

\* the convergence check and early stopping of one loop pass
convergence(best, count, result) ==
    IF result.status = "completed"
    THEN LET improved == RLess(RAdd(best, convergence_threshold), result.avg_accuracy)
             count1 == IF improved THEN 0 ELSE count + 1
         IN  [best_accuracy |-> IF improved THEN result.avg_accuracy ELSE best,
              no_improvement_count |-> count1,
              stop |-> count1 >= patience]
    ELSE [best_accuracy |-> best, no_improvement_count |-> count, stop |-> FALSE]

\* round_result['round'] = round_num + 1: round_result is the very dict that
\* federated_round appended to self.round_results, when it appended one
set_round(rr, result, n) ==
    IF result.status = "completed"
    THEN [rr EXCEPT ![Len(rr)] = [@ EXCEPT !.round = n]]
    ELSE rr

\* mutant: a round that is not completed is left out of the history
record_round_skips_insufficient(rounds, result, n) ==
    IF result.status = "completed"
    THEN Append(rounds, [result EXCEPT !.round = n])
    ELSE rounds

\* round_result['round'] = round_num + 1
\* training_history['rounds'].append(round_result)
record_round(rounds, result, n) == Append(rounds, [result EXCEPT !.round = n])

\* accuracies the clients measure in the train specification: client 1 the
\* scripted sequence 0.5, 0.5005, 0.5007, 0.5006 (0.5006 from then on),
\* client 2 one tenth more every round
ScriptedAccuracies ==
    <<Frac(5000, 10000), Frac(5005, 10000), Frac(5007, 10000), Frac(5006, 10000)>>

accuracy_profile(c, r) ==
    IF c = 1
    THEN ScriptedAccuracies[IF r <= Len(ScriptedAccuracies) THEN r
                            ELSE Len(ScriptedAccuracies)]
    ELSE Frac(r, 10)

train_profile(c) ==
    CHOOSE t \in TrainResults : (t.loss = Num(2)) <=> (c = 2)

\* the outcomes of client c in round r of the train specification
TrainOutcomes(c, r) ==
    {Failure,
     Outcome(FALSE, train_profile(c).delta, train_profile(c).loss, FALSE,
             accuracy_profile(c, r), Frac(1, 4))}

\* config.min_clients and config.num_rounds of the train specification
TrainMinClients == {1, 3}

TrainNumRounds == {0, 1, MaxRounds}

Init ==
    /\ Fresh
    /\ pc = "ready"
    /\ clients \in SeqsUpTo(ClientIds, MaxTrainClients)
    /\ global_state = InitialState
    /\ round_start = global_state
    /\ config \in [num_rounds : TrainNumRounds, min_clients : TrainMinClients]
    /\ call = NoCall

\* mutant: one pass too many
loop_continues_off_by_one(n, cfg) == n <= cfg.num_rounds

\* for round_num in range(self.config.num_rounds): another pass after n passes
loop_continues(n, cfg) == n < cfg.num_rounds

\* train, up to the loop
train_start ==
    /\ pc = "ready"
    /\ training_history' = NoHistory
    /\ best_accuracy' = Zero
    /\ no_improvement_count' = 0
    /\ round_num' = 0
    /\ pc' = "loop"
    /\ UNCHANGED <<serverVars, roundVars, call>>

\* one pass of "for round_num in range(self.config.num_rounds)"; round_num
\* counts the calls of federated_round made
train_round ==
    /\ pc = "loop"
    /\ loop_continues(round_num, config)
    /\ round_num' = round_num + 1
    /\ round_start' = global_state
    /\ IF select_raises(clients, Num(1))
       THEN /\ pc' = "raised"
            /\ UNCHANGED <<global_state, model, round_results, selected, idx,
                           client_updates, client_evaluations, round_result,
                           train_log, training_history, best_accuracy,
                           no_improvement_count>>
       ELSE \E s \in select_clients(clients, Num(1)) :
            \E outs \in [1..Len(s) -> UNION {TrainOutcomes(c, round_num + 1) : c \in ClientIds}] :
               /\ \A i \in 1..Len(s) : outs[i] \in TrainOutcomes(s[i], round_num + 1)
               /\ \E r \in {federated_round(global_state, model, round_results, s, outs, config)} :
                  LET res == [r.result EXCEPT !.round = round_num + 1]
                      cv == convergence(best_accuracy, no_improvement_count, res)
                  IN  /\ global_state' = r.global_state
                      /\ model' = r.model
                      /\ round_results' = set_round(r.round_results, r.result, round_num + 1)
                      /\ selected' = s
                      /\ idx' = IF insufficient(s, config) THEN 0 ELSE Len(s) + 1
                      /\ client_updates' = r.frame.client_updates
                      /\ client_evaluations' = r.frame.client_evaluations
                      /\ train_log' = r.frame.train_log
                      /\ round_result' = res
                      /\ best_accuracy' = cv.best_accuracy
                      /\ no_improvement_count' = cv.no_improvement_count
                      /\ training_history' =
                            [training_history EXCEPT
                                !.rounds = record_round(@, r.result, round_num + 1),
                                !.convergence_round =
                                    IF cv.stop THEN round_num + 1 ELSE @]
                      /\ pc' = IF cv.stop THEN "break" ELSE "loop"
    /\ UNCHANGED <<clients, config, call>>

\* after the loop: final_accuracy, return training_history
train_return ==
    /\ \/ pc = "break"
       \/ pc = "loop" /\ ~loop_continues(round_num, config)
    /\ training_history' = [training_history EXCEPT !.final_accuracy = best_accuracy]
    /\ pc' = "returned"
    /\ UNCHANGED <<serverVars, roundVars, best_accuracy, no_improvement_count,
                   round_num, call>>

Next == train_start \/ train_round \/ train_return

Spec == Init /\ [][Next]_vars

-----------------------------------------------------------------------------
(* Properties of one federated_round (SpecRound) *)

RoundReturned == pc = "returned"

\* positions of train_log whose local_train returned / raised
Trained == {i \in 1..Len(train_log) : ~train_log[i].raised}
Failed == {i \in 1..Len(train_log) : train_log[i].raised}

RECURSIVE SumOver(_, _)
SumOver(f, S) ==
    IF S = {} THEN Zero
    ELSE LET i == CHOOSE j \in S : TRUE
         IN  RAdd(f[i], SumOver(f, S \ {i}))

\* sum_i (n_i / sum_j n_j) * d_i[key] over the calls of train_log that returned
ExpectedDelta(key) ==
    LET total == SumOver([i \in Trained |-> Num(NumSamples[train_log[i].client])], Trained)
    IN  RMul(SumOver([i \in Trained |->
                        RMul(Num(NumSamples[train_log[i].client]), train_log[i].delta[key])],
                     Trained),
             Frac(total.d, total.n))

\* C10 (as claimed): no two registered clients share a client_id.
C10_NoDuplicateClientId ==
    \A i, j \in 1..Len(clients) : i # j => clients[i] # clients[j]

\* C1: a federated_round whose selection is smaller than min_clients leaves the
\* global parameters as they were, binds no model and trains no client, and
\* returns status insufficient_clients with the number of selected clients.
C1_InsufficientShortCircuit ==
    (RoundReturned /\ Len(selected) < config.min_clients) =>
        /\ global_state = round_start
        /\ train_log = <<>>
        /\ client_updates = <<>>
        /\ model = [c \in ClientIds |-> NoModel]
        /\ round_result.status = "insufficient_clients"
        /\ round_result.client_count = Len(selected)

C1_Witness ==
    /\ RoundReturned
    /\ Len(selected) = 1
    /\ config.min_clients = 2
    /\ global_state # InitialState

\* C2: with at least min_clients selected and at least one client whose
\* local_train returns, the round completes whichever clients raise: every
\* selected client was trained in turn, the global parameters moved by the
\* weighted average of exactly the returned updates, and participating_clients
\* is the number selected minus the number that raised.
C2_PartialFailureTolerance ==
    (RoundReturned /\ Len(selected) >= config.min_clients /\ Trained # {}) =>
        /\ round_result.status = "completed"
        /\ Len(train_log) = Len(selected)
        /\ \A i \in 1..Len(selected) : train_log[i].client = selected[i]
        /\ [i \in 1..Len(client_updates) |-> client_updates[i].client_id]
             = [i \in 1..Cardinality(Trained) |->
                   train_log[CHOOSE j \in Trained :
                                Cardinality({m \in Trained : m < j}) = i - 1].client]
        /\ \A k \in Keys : global_state[k] = RAdd(round_start[k], ExpectedDelta(k))
        /\ round_result.participating_clients = Len(selected) - Cardinality(Failed)

C2_Witness ==
    /\ RoundReturned
    /\ Len(selected) = 2
    /\ selected[1] # selected[2]
    /\ Failed = {1}
    /\ round_result.status = "completed"
    /\ round_result.participating_clients = 1

\* C12 (as claimed): when at least min_clients clients are selected and the
\* local_train of every one of them raises, the round returns status
\* insufficient_clients with 0 participants and leaves the global parameters
\* as they were; no completed record has 0 participants.
C12_AllFailedIsInsufficient ==
    /\ (RoundReturned /\ Len(selected) >= config.min_clients /\ client_updates = <<>>) =>
          /\ round_result.status = "insufficient_clients"
          /\ global_state = round_start
    /\ (RoundReturned /\ round_result.status = "completed") =>
          round_result.participating_clients # 0

\* C13 (as claimed): a round in which fewer than min_clients clients returned
\* an update is recorded as insufficient_clients: every completed record has
\* participating_clients >= min_clients.  Stated for the rounds in which at
\* least one client returned an update, of a server without a client
\* registered twice.
C13_CompletedHasMinClients ==
    (RoundReturned /\ client_updates # <<>> /\ C10_NoDuplicateClientId) =>
        /\ Len(client_updates) < config.min_clients =>
              round_result.status = "insufficient_clients"
        /\ round_result.status = "completed" =>
              round_result.participating_clients >= config.min_clients

\* C20 (as claimed): the client of every update collected in a round has applied
\* the privacy mechanism exactly once in that round, whatever local_epochs and
\* the number of mini-batches.
C20_PrivacyAppliedOnce ==
    \A i \in Trained : train_log[i].privacy_calls = 1

\* C22: the global parameters change only in the aggregation step of
\* federated_round: in every state of the client loop, whatever the clients
\* trained, evaluated or raised so far, they are those of the start of the
\* round, and a step that changes them is the aggregation after the loop.
C22_GlobalChangesOnlyInAggregation ==
    /\ [](pc = "clients" => global_state = round_start)
    /\ [][global_state' # global_state =>
             /\ pc = "clients"
             /\ pc' = "aggregated"
             /\ loop_finished(idx, selected)
             /\ train_log' = train_log
             /\ model' = model]_vars

C22_Witness ==
    /\ pc = "clients"
    /\ idx = 3
    /\ Trained = {1}
    /\ Failed = {2}
    /\ client_evaluations = <<>>
    /\ model[selected[1]].params # round_start
    /\ global_state = round_start

\* C23: every local_train of a round, whatever its position in the selection
\* and whatever the clients before it did, starts from the global parameters
\* of the start of the round.
C23_SameStartingState ==
    \A i \in 1..Len(train_log) : train_log[i].initial_state = round_start

C23_Witness ==
    /\ RoundReturned
    /\ Len(train_log) = 2
    /\ Trained = {1, 2}
    /\ train_log[1].client # train_log[2].client
    /\ train_log[1].delta # train_log[2].delta
    /\ round_start # InitialState
    /\ train_log[2].initial_state = round_start

\* C24 (as claimed): no evaluation of a round is made before the aggregation
\* of that round: while the client loop runs, client_evaluations is empty.
C24_EvaluationAfterAggregation ==
    pc = "clients" => client_evaluations = <<>>

ClientsOf(s) == {s[i].client_id : i \in 1..Len(s)}

\* C15 (as claimed): the clients whose update is aggregated are the clients
\* with an evaluation in the record: a client whose local_train or evaluate
\* raised is in neither, and participating_clients is the number of
\* evaluations.
C15_AggregatedAreEvaluated ==
    (RoundReturned /\ round_result.status = "completed") =>
        /\ ClientsOf(client_updates) = ClientsOf(round_result.client_evaluations)
        /\ round_result.participating_clients = Len(round_result.client_evaluations)


-----------------------------------------------------------------------------
(* Properties of select_clients and aggregate_updates (SpecUnit) *)

Aggregated == call.op = "aggregate_updates" /\ call.status # "ready"
Selected == call.op = "select_clients" /\ call.status # "ready"

\* sum_i n_i * d_i[key] / sum_j n_j, over one common denominator
WeightedMean(us, key) ==
    LET I == 1..Len(us)
        total == SumOver([i \in I |-> Num(us[i].num_samples)], I)
    IN  RMul(SumOver([i \in I |-> RMul(Num(us[i].num_samples), us[i].updates[key])], I),
             Frac(total.d, total.n))

\* every update of the list has the keys of the first
SameKeys(us) == \A i \in 1..Len(us) : DOMAIN us[i].updates = DOMAIN us[1].updates

\* C3: aggregate_updates on a non-empty list of updates over one key set adds
\* sum_i (n_i / sum_j n_j) * d_i[key] to every key of the updates and changes no
\* other key of the global parameters.
C3_WeightedAggregation ==
    (Aggregated /\ call.updates # <<>> /\ SameKeys(call.updates)
       /\ \E i \in 1..Len(call.updates) : call.updates[i].num_samples > 0) =>
        /\ call.status = "returned"
        /\ \A k \in Keys :
              global_state[k] =
                 IF k \in DOMAIN call.updates[1].updates
                 THEN RAdd(call.before[k], WeightedMean(call.updates, k))
                 ELSE call.before[k]

C3_Witness ==
    /\ Aggregated
    /\ Len(call.updates) = 2
    /\ DOMAIN call.updates[1].updates = {"w"}
    /\ DOMAIN call.updates[2].updates = {"w"}
    /\ call.updates[1].num_samples # call.updates[2].num_samples
    /\ call.updates[1].updates["w"] # call.updates[2].updates["w"]
    /\ global_state # call.before

\* C4: aggregate_updates on the empty list returns without an error and leaves
\* every global parameter as it was.
C4_EmptyAggregationNoOp ==
    (Aggregated /\ call.updates = <<>>) =>
        /\ call.status = "returned"
        /\ global_state = call.before

C4_Witness ==
    /\ Aggregated
    /\ call.updates = <<>>
    /\ call.before # InitialState

\* C16 (as claimed): when the key set of some update of the list differs from
\* the key set of the first update (a key missing or an extra key),
\* aggregate_updates raises and leaves the global parameters as they were.
C16_SchemaMismatchIsFatal ==
    (Aggregated /\ call.updates # <<>> /\ ~SameKeys(call.updates)) =>
        /\ call.status = "raised"
        /\ global_state = call.before

\* C18: when every update of a non-empty list carries the same delta d,
\* aggregate_updates adds exactly d to the global parameters whatever the
\* sample counts: updates of 100 and 300 samples with delta +1 on w = 0 give
\* w = 1.
C18_IdenticalDeltas ==
    (Aggregated /\ call.updates # <<>>
       /\ \A i \in 1..Len(call.updates) :
             /\ call.updates[i].updates = call.updates[1].updates
             /\ call.updates[i].num_samples > 0) =>
        /\ call.status = "returned"
        /\ \A k \in Keys :
              global_state[k] =
                 IF k \in DOMAIN call.updates[1].updates
                 THEN RAdd(call.before[k], call.updates[1].updates[k])
                 ELSE call.before[k]
        /\ (/\ DOMAIN call.updates[1].updates = {"w"}
            /\ call.updates[1].updates["w"] = Num(1)
            /\ call.before["w"] = Zero) => global_state["w"] = Num(1)

C18_Witness ==
    /\ Aggregated
    /\ Len(call.updates) = 2
    /\ call.updates[1].num_samples = 100
    /\ call.updates[2].num_samples = 300
    /\ call.updates[1].updates = [k \in {"w"} |-> Num(1)]
    /\ call.updates[2].updates = [k \in {"w"} |-> Num(1)]
    /\ call.before = InitialState
    /\ global_state["w"] = Num(1)
    /\ global_state["b"] = Zero

Clipped == call.op = "add_noise_to_gradients" /\ call.status = "returned"

\* the Euclidean norm of the flattened gradients g
EuclideanNorm(g) == RSqrt(RAdd(RMul(g["w"], g["w"]), RMul(g["b"], g["b"])))

Scaled(g, c) == [k \in DOMAIN g |-> RMul(c, g[k])]

\* the norm of the gradients after the clipping step, which are the gradients
\* at the call times a factor c >= 0: c times their norm
ClippedNorm ==
    LET coef == RDiv(call.max_grad_norm, RAdd(EuclideanNorm(call.before), epsilon))
        c == CHOOSE x \in {Num(1), coef} : call.clipped = Scaled(call.before, x)
    IN  RMul(c, EuclideanNorm(call.before))

\* C19 (as claimed): after the clipping step the Euclidean norm of gradients of
\* nonzero norm does not exceed max_grad_norm, and gradients whose norm is at
\* most max_grad_norm are not scaled.
C19_ClipInvariant ==
    Clipped =>
        /\ \E x \in {Num(1), clip_coef(call.max_grad_norm, EuclideanNorm(call.before))} :
              call.clipped = Scaled(call.before, x)
        /\ EuclideanNorm(call.before) # Zero => RLeq(ClippedNorm, call.max_grad_norm)
        /\ RLeq(EuclideanNorm(call.before), call.max_grad_norm) =>
              call.clipped = call.before

\* C19 (amended): after the clipping step the Euclidean norm of the gradients
\* does not exceed max_grad_norm; gradients whose norm is at most
\* max_grad_norm - 1e-6 are not scaled, and all others, those of a norm between
\* max_grad_norm - 1e-6 and max_grad_norm included, are multiplied, every one of
\* them, by max_grad_norm / (norm + 1e-6) < 1.
C19_ClipInvariantAmended ==
    Clipped =>
        LET norm == EuclideanNorm(call.before)
            coef == RDiv(call.max_grad_norm, RAdd(norm, epsilon))
        IN  /\ RLeq(ClippedNorm, call.max_grad_norm)
            /\ IF RLeq(RAdd(norm, epsilon), call.max_grad_norm)
               THEN call.clipped = call.before
               ELSE /\ RLess(coef, Num(1))
                    /\ call.clipped = Scaled(call.before, coef)
                    /\ RLess(ClippedNorm, norm)

C19_Witness ==
    /\ Clipped
    /\ call.before = [k \in Keys |-> IF k = "w" THEN Num(3) ELSE Num(4)]
    /\ call.max_grad_norm = Num(1)
    /\ call.clipped # call.before
    /\ call.clipped["w"] = Frac(3000000, 5000001)
    /\ call.grad # call.clipped

\* C21 (as claimed): evaluate never raises and never changes parameters: in
\* any state of the client it returns a result and leaves the parameters of
\* the client's model and the global parameters as they were.
C21_EvaluateNeverRaises ==
    (call.op = "evaluate" /\ call.status # "ready") =>
        /\ call.status = "returned"
        /\ Len(call.returned) = 1
        /\ model[call.client].params = call.before
        /\ global_state = round_start

\* C27: local_train on a client without a model raises, returns no update and
\* changes neither the client nor the server.
C27_LocalTrainNeedsModel ==
    [][(/\ call.op = "local_train"
        /\ call.status = "ready"
        /\ call'.status # "ready"
        /\ ~model[call.client].bound)
       => /\ call'.status = "raised"
          /\ call'.updates = <<>>
          /\ model' = model
          /\ global_state' = global_state
          /\ clients' = clients
          /\ round_results' = round_results]_vars

C27_Witness ==
    /\ call.op = "local_train"
    /\ call.status = "raised"
    /\ model[call.client] = NoModel
    /\ call.updates = <<>>
    /\ global_state # InitialState

\* C29 (as claimed): whenever aggregate_updates runs on a non-empty list of
\* updates the total sample count is positive and no division by zero occurs:
\* the call returns, also when every update reports 0 samples.
C29_TotalSamplesPositive ==
    (Aggregated /\ call.updates # <<>> /\ SameKeys(call.updates)) =>
        /\ call.status = "returned"
        /\ \E i \in 1..Len(call.updates) : call.updates[i].num_samples > 0

Permuted(us, p) == [i \in 1..Len(us) |-> us[p[i]]]

\* C30: for a non-empty list of updates over one key set, aggregate_updates on
\* any permutation of the list gives the global parameters it gives on the
\* list, and raises on the permutation if and only if it raises on the list.
C30_OrderIndependent ==
    (Aggregated /\ call.updates # <<>> /\ SameKeys(call.updates)) =>
        \A p \in Draws(Len(call.updates), Len(call.updates)) :
            /\ aggregate_updates(call.before, Permuted(call.updates, p)) = global_state
            /\ aggregate_raises(call.before, Permuted(call.updates, p))
                  <=> (call.status = "raised")

C30_Witness ==
    /\ Aggregated
    /\ call.status = "returned"
    /\ Len(call.updates) = 2
    /\ DOMAIN call.updates[1].updates = Keys
    /\ DOMAIN call.updates[2].updates = Keys
    /\ call.updates[1].num_samples = 300
    /\ call.updates[2].num_samples = 100
    /\ call.updates[1].updates["w"] # call.updates[2].updates["w"]
    /\ call.updates[1].updates["b"] # call.updates[2].updates["b"]
    /\ global_state # call.before

HasDuplicate(s) == \E i, j \in 1..Len(s) : i # j /\ s[i] = s[j]

\* max(1, floor(fraction * P))
ClaimedSize == Max(1, Floor(RMul(call.fraction, Num(Len(clients)))))

\* C9 (as claimed): for every pool and every fraction select_clients returns
\* exactly max(1, floor(fraction * P)) clients, all registered, none twice.
C9_SelectionCardinality ==
    Selected =>
        /\ call.status = "returned"
        /\ Len(call.returned) = ClaimedSize
        /\ Range(call.returned) \subseteq Range(clients)
        /\ ~HasDuplicate(call.returned)

\* C9 (amended): when the pool is not empty and max(1, floor(fraction * P)) is
\* at most P, select_clients returns that many entries of the registered list,
\* taken from distinct positions of it, so that no client is returned twice
\* unless it is registered twice; otherwise select_clients raises.
C9_SelectionCardinalityAmended ==
    Selected =>
        IF Len(clients) >= 1 /\ ClaimedSize <= Len(clients)
        THEN /\ call.status = "returned"
             /\ Len(call.returned) = ClaimedSize
             /\ \E p \in Draws(Len(clients), ClaimedSize) :
                   call.returned = [i \in 1..ClaimedSize |-> clients[p[i]]]
             /\ ~HasDuplicate(clients) => ~HasDuplicate(call.returned)
        ELSE call.status = "raised"

C9_Witness ==
    /\ Selected
    /\ Len(clients) = 2
    /\ call.fraction = Frac(1, 2)
    /\ call.status = "returned"
    /\ Len(call.returned) = 1

-----------------------------------------------------------------------------
(* Properties of train (Spec) *)

History == training_history.rounds
Completed == {i \in 1..Len(History) : History[i].status = "completed"}
TrainEnded == pc \in {"returned", "raised"}

\* best_accuracy and no_improvement_count as the rule of the convergence
\* tracker gives them for a history: on a completed round with accuracy a,
\* a > best + threshold sets best to a and the counter to 0, anything else adds
\* 1 to the counter; any other round changes neither
RECURSIVE Tracker(_)
Tracker(h) ==
    IF h = <<>>
    THEN [best |-> Zero, count |-> 0]
    ELSE LET t == Tracker(SubSeq(h, 1, Len(h) - 1))
             r == h[Len(h)]
         IN  IF r.status # "completed"
             THEN t
             ELSE IF RLess(RAdd(t.best, convergence_threshold), r.avg_accuracy)
                  THEN [best |-> r.avg_accuracy, count |-> 0]
                  ELSE [best |-> t.best, count |-> t.count + 1]

\* the history is four completed rounds with the scripted accuracies
ScriptedRun ==
    /\ Len(History) = Len(ScriptedAccuracies)
    /\ \A i \in 1..Len(History) :
          /\ History[i].status = "completed"
          /\ History[i].avg_accuracy = ScriptedAccuracies[i]

\* C5: best_accuracy and no_improvement_count follow the tracker's rule, no
\* round runs after the first round at which the counter reaches patience,
\* convergence_round is the number of that round and is -1 while the counter
\* has not reached patience; with the accuracies 0.5, 0.5005, 0.5007, 0.5006
\* training stops after round 4 with best_accuracy 0.5.
C5_ConvergenceEarlyStop ==
    /\ \A n \in 0..(Len(History) - 1) : Tracker(SubSeq(History, 1, n)).count < patience
    /\ pc \in {"loop", "break", "returned"} =>
          /\ best_accuracy = Tracker(History).best
          /\ no_improvement_count = Tracker(History).count
    /\ Tracker(History).count >= patience =>
          /\ pc \in {"break", "returned"}
          /\ training_history.convergence_round = Len(History)
          /\ History[Len(History)].round = Len(History)
          /\ History[Len(History)].status = "completed"
    /\ Tracker(History).count < patience => training_history.convergence_round = -1
    /\ ScriptedRun =>
          /\ pc \in {"break", "returned"}
          /\ best_accuracy = Frac(1, 2)
          /\ training_history.convergence_round = 4

C5_Witness ==
    /\ pc = "returned"
    /\ ScriptedRun
    /\ config.num_rounds = 5
    /\ round_num = 4
    /\ training_history.final_accuracy = Frac(1, 2)

\* C6: a loop pass whose round is insufficient_clients uses one round of the
\* budget and leaves best_accuracy, no_improvement_count and convergence_round
\* as they were, without stopping the loop; the round convergence_round names
\* is always a completed one.
C6_InsufficientRoundSkipped ==
    /\ [](training_history.convergence_round # -1 =>
            training_history.convergence_round \in Completed)
    /\ [][(/\ pc = "loop"
           /\ Len(History') = Len(History) + 1
           /\ History'[Len(History')].status = "insufficient_clients")
          => /\ round_num' = round_num + 1
             /\ best_accuracy' = best_accuracy
             /\ no_improvement_count' = no_improvement_count
             /\ training_history'.convergence_round = training_history.convergence_round
             /\ pc' = "loop"]_vars

C6_Witness ==
    /\ pc = "loop"
    /\ round_num = 2
    /\ Len(History) = 2
    /\ History[2].status = "insufficient_clients"
    /\ History[2].client_count = 1

C8_FinalAccuracyIsMaximum ==
    (pc = "returned" /\ Completed # {}) =>
        /\ \E i \in Completed : History[i].avg_accuracy = training_history.final_accuracy
        /\ \A i \in Completed :
              RLeq(History[i].avg_accuracy, training_history.final_accuracy)

\* C8 (amended): final_accuracy is the tracker's best_accuracy: 0 or the
\* avg_accuracy of a completed round of the returned history, and no completed
\* round's avg_accuracy exceeds it by more than convergence_threshold.
C8_FinalAccuracyIsBestAmended ==
    pc = "returned" =>
        /\ training_history.final_accuracy = Tracker(History).best
        /\ \/ training_history.final_accuracy = Zero
           \/ \E i \in Completed :
                 History[i].avg_accuracy = training_history.final_accuracy
        /\ \A i \in Completed :
              RLeq(History[i].avg_accuracy,
                   RAdd(training_history.final_accuracy, convergence_threshold))

C8_Witness ==
    /\ pc = "returned"
    /\ training_history.final_accuracy = Frac(1, 2)
    /\ \E i \in Completed :
          RLess(training_history.final_accuracy, History[i].avg_accuracy)
    /\ Len(History) \in Completed
    /\ History[Len(History)].avg_accuracy # training_history.final_accuracy

\* C11 (as claimed): every federated_round call appends exactly one record to
\* round_results, whatever its outcome: after n calls made by train,
\* round_results holds n records, those of insufficient_clients rounds included.
C11_OneRecordPerRound ==
    pc \in {"loop", "break", "returned"} =>
        /\ Len(round_results) = round_num
        /\ \A i \in 1..Len(round_results) : round_results[i].status = History[i].status

\* C14 (as claimed): with min_clients greater than the number of registered
\* clients train reports an error before any round runs: no federated_round
\* call is made and no round record is produced.  Stated for a server with at
\* least one registered client.
C14_ConfigRejectedAtSetup ==
    (Len(clients) >= 1 /\ config.min_clients > Len(clients)) =>
        /\ round_num = 0
        /\ History = <<>>
        /\ round_results = <<>>

\* the history has one record per federated_round call, numbered 1, 2, ... in
\* the order of the calls, of status completed or insufficient_clients
CompleteHistory ==
    /\ Len(History) = round_num
    /\ Len(History) <= config.num_rounds
    /\ \A i \in 1..Len(History) :
          /\ History[i].round = i
          /\ History[i].status \in {"completed", "insufficient_clients"}

C26_RecordsImmutable ==
    \A i \in 1..Len(round_results) :
        /\ round_results[i].status = "completed"
        /\ round_results[i].round = NoRound

\* selected is the registered list in some order
SelectedAll ==
    /\ Len(selected) = Len(clients)
    /\ \E p \in Draws(Len(clients), Len(clients)) :
          selected = [i \in 1..Len(clients) |-> clients[p[i]]]

\* every round so far is insufficient_clients, no accuracy was recorded
AllInsufficient ==
    /\ \A i \in 1..Len(History) :
          /\ History[i].status = "insufficient_clients"
          /\ History[i].client_count = Len(clients)
    /\ best_accuracy = Zero
    /\ training_history.convergence_round = -1

=============================================================================
